---- MODULE Spec2Model ----
(***************************************************************************)
(* Byte-pair-encoding tokenizer of src/tokenizers/mini.py: the Tokenizer   *)
(* class (add / build / encode / decode) and the binary persistence        *)
(* functions save_tokenizer / load_tokenizer.                              *)
(*                                                                         *)
(* A text is a sequence of Unicode code points; a byte, a symbol and a     *)
(* token are integers.  Python's 0-based index i is position i + 1 here.   *)
(***************************************************************************)
EXTENDS Integers, Sequences, FiniteSets, TLC

\* ------------------------------------------------------------------ bounds

\* Longest text handed to add / encode, in code points.
MaxTextLen == 3

\* Most add calls that extend the corpus of one tokenizer.
MaxAdds == 2

\* Most bytes the add calls put into the corpus of one tokenizer.
MaxCorpusBytes == 6

\* Longest token list handed to decode.
MaxDecodeLen == 2

\* Most merge records of a file that was not written by save_tokenizer.
MaxRecords == 2

\* ------------------------------------------------------- program constants

\* VOCAB_SIZE = 300
VOCAB_SIZE == 300

\* The first learned symbol id; the base alphabet is range(256).
FirstNewToken == 256

\* The file version save_tokenizer writes and load_tokenizer accepts.
FileVersion == 1

\* The Unicode replacement character of bytes.decode(errors="replace").
ReplacementChar == 65533

\* ----------------------------------------------------------------- inputs

\* Code points the texts are made of: ' ', 'a' and U+00E9 (two UTF-8 bytes).
Alphabet == {32, 97, 233}

\* Texts that reach the contraction alternatives of the split pattern.
ContractionTexts == {<<97, 39, 115>>, <<39, 83, 32>>, <<39, 108, 108>>}

TextsUpTo(n) == UNION {[1..k -> Alphabet] : k \in 0..n}

\* The texts handed to add.
TrainTexts == TextsUpTo(MaxTextLen) \cup ContractionTexts

\* The texts encode is examined on.
QueryTexts == TextsUpTo(MaxTextLen)

\* The texts the encode calls of a run are made with: the longest runs of one
\* code point.
EncodeInputs == {t \in QueryTexts : Len(t) = MaxTextLen /\ \A i \in 1..Len(t) : t[i] = t[1]}

\* The token lists decode is examined on: base symbols, learned symbols and
\* an id no vocabulary of the model holds.
DecodeTokens == {97, 169, 195, 256, 257, 999}

DecodeLists == UNION {[1..k -> DecodeTokens] : k \in 0..MaxDecodeLen}

\* The token lists the decode calls of a run are made with.
DecodeInputs == {d \in DecodeLists : Len(d) = MaxDecodeLen /\ d[1] = 256 /\ d[2] # 97}

\* The vocab_size argument of Tokenizer(); 0 stands for None (both falsy).
VocabSizeArgs == {0, 255, 256, 257}

\* ------------------------------------------------------------ sequences

RECURSIVE Concat(_)
Concat(seqs) == IF seqs = <<>> THEN <<>> ELSE Head(seqs) \o Concat(Tail(seqs))

Take(s, n) == SubSeq(s, 1, n)

Drop(s, n) == SubSeq(s, n + 1, Len(s))

\* ------------------------------------------------------------ UTF-8 encode

\* str.encode("utf-8") of one code point (surrogates are not well-formed text).
utf8_char(cp) ==
    IF cp < 128 THEN <<cp>>
    ELSE IF cp < 2048 THEN <<192 + (cp \div 64), 128 + (cp % 64)>>
    ELSE IF cp < 65536
         THEN <<224 + (cp \div 4096), 128 + ((cp \div 64) % 64), 128 + (cp % 64)>>
    ELSE <<240 + (cp \div 262144), 128 + ((cp \div 4096) % 64),
           128 + ((cp \div 64) % 64), 128 + (cp % 64)>>

\* text.encode("utf-8")
utf8_encode(text) == Concat([i \in 1..Len(text) |-> utf8_char(text[i])])

\* ------------------------------------------------------------ UTF-8 decode

IsContinuation(b) == b >= 128 /\ b < 192

\* One step of bytes.decode("utf-8", errors="replace") at position i of b:
\* the code point produced and the number of bytes consumed.  An invalid or
\* truncated sequence yields the replacement character and consumes the bytes
\* the decoder reports as the error range.
utf8_step(b, i) ==
    LET ch == b[i]
        rem == Len(b) - i + 1
        ch2 == b[i + 1]
        ch3 == b[i + 2]
        ch4 == b[i + 3]
        Bad(n) == [cp |-> ReplacementChar, n |-> n]
    IN  IF ch < 128 THEN [cp |-> ch, n |-> 1]
        ELSE IF ch < 224 THEN
            IF ch < 194 THEN Bad(1)
            ELSE IF rem < 2 THEN Bad(rem)
            ELSE IF ~IsContinuation(ch2) THEN Bad(1)
            ELSE [cp |-> (ch - 192) * 64 + (ch2 - 128), n |-> 2]
        ELSE IF ch < 240 THEN
            IF rem < 2 THEN Bad(rem)
            ELSE IF \/ ~IsContinuation(ch2)
                    \/ (ch = 224 /\ ch2 < 160)
                    \/ (ch = 237 /\ ch2 >= 160) THEN Bad(1)
            ELSE IF rem < 3 THEN Bad(rem)
            ELSE IF ~IsContinuation(ch3) THEN Bad(2)
            ELSE [cp |-> (ch - 224) * 4096 + (ch2 - 128) * 64 + (ch3 - 128), n |-> 3]
        ELSE IF ch < 245 THEN
            IF rem < 2 THEN Bad(rem)
            ELSE IF \/ ~IsContinuation(ch2)
                    \/ (ch = 240 /\ ch2 < 144)
                    \/ (ch = 244 /\ ch2 >= 144) THEN Bad(1)
            ELSE IF rem < 3 THEN Bad(rem)
            ELSE IF ~IsContinuation(ch3) THEN Bad(2)
            ELSE IF rem < 4 THEN Bad(rem)
            ELSE IF ~IsContinuation(ch4) THEN Bad(3)
            ELSE [cp |-> (ch - 240) * 262144 + (ch2 - 128) * 4096
                         + (ch3 - 128) * 64 + (ch4 - 128), n |-> 4]
        ELSE Bad(1)

RECURSIVE utf8_decode_from(_, _)
utf8_decode_from(b, i) ==
    IF i > Len(b) THEN <<>>
    ELSE LET st == utf8_step(b, i)
         IN  <<st.cp>> \o utf8_decode_from(b, i + st.n)

\* bytes(...).decode("utf-8", errors="replace")
utf8_decode(b) == utf8_decode_from(b, 1)

\* -------------------------------------------------------------- segmenter

\* \p{L}, \p{N} and \s on the code points the model uses.
IsLetter(c) == c \in (65..90) \cup (97..122) \cup {233}

IsNumber(c) == c \in 48..57

IsSpace(c) == c \in {9, 10, 11, 12, 13, 32}

IsOther(c) == ~IsSpace(c) /\ ~IsLetter(c) /\ ~IsNumber(c)

\* regex.IGNORECASE on the ASCII letters of the contraction alternatives.
Lower(c) == IF c \in 65..90 THEN c + 32 ELSE c

\* The character classes of the split pattern: "L" is \p{L}, "N" is \p{N},
\* "S" is \s and "O" is [^\s\p{L}\p{N}].
InClass(c, cls) ==
    CASE cls = "L" -> IsLetter(c)
      [] cls = "N" -> IsNumber(c)
      [] cls = "S" -> IsSpace(c)
      [] cls = "O" -> IsOther(c)

\* Length of the run of code points of class cls from position i on.
RECURSIVE RunLen(_, _, _)
RunLen(text, i, cls) ==
    IF i > Len(text) \/ ~InClass(text[i], cls) THEN 0
    ELSE 1 + RunLen(text, i + 1, cls)

\* 's|'t|'re|'ve|'m|'ll|'d at position i: the length matched, 0 for no match.
ContractionLen(text, i) ==
    LET at(k) == IF i + k <= Len(text) THEN Lower(text[i + k]) ELSE 0
    IN  IF text[i] # 39 THEN 0
        ELSE IF at(1) \in {115, 116} THEN 2
        ELSE IF <<at(1), at(2)>> \in {<<114, 101>>, <<118, 101>>} THEN 3
        ELSE IF at(1) = 109 THEN 2
        ELSE IF <<at(1), at(2)>> = <<108, 108>> THEN 3
        ELSE IF at(1) = 100 THEN 2
        ELSE 0

\* " ?CLASS+" at position i: the length matched, 0 for no match.
ClassRunLen(text, i, cls) ==
    LET sp == IF text[i] = 32 THEN 1 ELSE 0
        withSpace == RunLen(text, i + sp, cls)
        without == RunLen(text, i, cls)
    IN  IF sp = 1 /\ withSpace > 0 THEN 1 + withSpace ELSE without

\* "\s+(?!\S)" at position i: the whole whitespace run when it reaches the end
\* of the text, else the run less its last code point (the pattern backtracks
\* until what follows is not a non-space); 0 for no match.
TrailingSpaceLen(text, i) ==
    LET n == RunLen(text, i, "S")
    IN  IF i + n > Len(text) THEN n ELSE IF n >= 2 THEN n - 1 ELSE 0

\* GPT2_SPLIT_PATTERN at position i: the first alternative that matches.
MatchLen(text, i) ==
    LET alts == << ContractionLen(text, i),
                   ClassRunLen(text, i, "L"),
                   ClassRunLen(text, i, "N"),
                   ClassRunLen(text, i, "O"),
                   TrailingSpaceLen(text, i),
                   RunLen(text, i, "S") >>
        first == CHOOSE k \in 1..6 : alts[k] > 0 /\ \A j \in 1..(k - 1) : alts[j] = 0
    IN  alts[first]

\* regex.findall(GPT2_SPLIT_PATTERN, text): the matches from position i on.
RECURSIVE findall(_, _)
findall(text, i) ==
    IF i > Len(text) THEN <<>>
    ELSE LET n == MatchLen(text, i)
         IN  <<SubSeq(text, i, i + n - 1)>> \o findall(text, i + n)

\* str_to_ints(text): the UTF-8 bytes of every word of the text.
str_to_ints(text) ==
    LET words == findall(text, 1)
    IN  [k \in 1..Len(words) |-> utf8_encode(words[k])]

\* ------------------------------------------------------------ pair counts

\* The pair-count table is a dict: its entries are kept in insertion order,
\* which is the order max() iterates them in.
IndexOfPair(counts, pair) ==
    IF \E k \in 1..Len(counts) : counts[k].pair = pair
    THEN CHOOSE k \in 1..Len(counts) : counts[k].pair = pair
    ELSE 0

\* counts[pair] += 1 on a DefaultDict(int)
incr_count(counts, pair) ==
    LET k == IndexOfPair(counts, pair)
    IN  IF k = 0 THEN Append(counts, [pair |-> pair, n |-> 1])
        ELSE [counts EXCEPT ![k].n = @ + 1]

\* for pair in zip(word, word[1:]): counts[pair] += 1, from position i on.
RECURSIVE count_word(_, _, _)
count_word(counts, word, i) ==
    IF i >= Len(word) THEN counts
    ELSE count_word(incr_count(counts, <<word[i], word[i + 1]>>), word, i + 1)

\* The pairs counted over the corpus as one flat sequence of symbols.
count_corpus_flat(counts, corpus, w) ==
    IF w > Len(corpus) THEN counts
    ELSE count_word(counts, Concat(SubSeq(corpus, w, Len(corpus))), 1)

\* for word in corpus: count the pairs of the word, from word w on.
RECURSIVE count_corpus(_, _, _)
count_corpus(counts, corpus, w) ==
    IF w > Len(corpus) THEN counts
    ELSE count_corpus(count_word(counts, corpus[w], 1), corpus, w + 1)

\* The maximum that keeps the last of the entries with the highest count.
RECURSIVE max_index_last(_, _, _)
max_index_last(counts, i, best) ==
    IF i > Len(counts) THEN best
    ELSE max_index_last(counts, i + 1, IF counts[i].n >= counts[best].n THEN i ELSE best)

\* max(counts.items(), key=lambda kv: kv[1]): the index of the first entry
\* whose count no later entry exceeds strictly.
RECURSIVE max_index(_, _, _)
max_index(counts, i, best) ==
    IF i > Len(counts) THEN best
    ELSE max_index(counts, i + 1, IF counts[i].n > counts[best].n THEN i ELSE best)

max_pair(counts) == counts[max_index(counts, 2, 1)].pair

\* ---------------------------------------------------------- rewrite pass

\* replace_pair_with_token: i is Python's index, out the symbols yielded so far.
RECURSIVE replace_loop(_, _, _, _, _)
replace_loop(tokens, pair, new_token, i, out) ==
    IF i < Len(tokens) - 1
    THEN IF <<tokens[i + 1], tokens[i + 2]>> = pair
         THEN replace_loop(tokens, pair, new_token, i + 2, Append(out, new_token))
         ELSE replace_loop(tokens, pair, new_token, i + 1, Append(out, tokens[i + 1]))
    ELSE IF i < Len(tokens) THEN Append(out, tokens[Len(tokens)]) ELSE out

\* The pass with the scan advancing one position after a replacement, so that
\* the second symbol of a replaced pair is scanned again.
RECURSIVE replace_loop_rescan(_, _, _, _, _)
replace_loop_rescan(tokens, pair, new_token, i, out) ==
    IF i < Len(tokens) - 1
    THEN IF <<tokens[i + 1], tokens[i + 2]>> = pair
         THEN replace_loop_rescan(tokens, pair, new_token, i + 1, Append(out, new_token))
         ELSE replace_loop_rescan(tokens, pair, new_token, i + 1, Append(out, tokens[i + 1]))
    ELSE IF i < Len(tokens) THEN Append(out, tokens[Len(tokens)]) ELSE out

replace_pair_rescanning(tokens, pair, new_token) ==
    replace_loop_rescan(tokens, pair, new_token, 0, <<>>)

replace_pair_with_token(tokens, pair, new_token) ==
    replace_loop(tokens, pair, new_token, 0, <<>>)

\* ------------------------------------------------------------- vocabulary

\* The vocabulary dict starts as {i: bytes([i]) for i in range(256)}; the model
\* keeps the entries assigned after that and reads a base entry that was not
\* reassigned as the one byte it stands for.
vocab_has(vocab, token) == token \in DOMAIN vocab \/ token \in 0..(FirstNewToken - 1)

vocab_at(vocab, token) == IF token \in DOMAIN vocab THEN vocab[token] ELSE <<token>>

\* for pair, token in merges: vocab[token] = vocab[pair[0]] + vocab[pair[1]]
\* from merge k on; a missing key raises KeyError.
RECURSIVE fold_vocab(_, _, _)
fold_vocab(vocab, merges, k) ==
    IF k > Len(merges) THEN [ok |-> TRUE, vocab |-> vocab]
    ELSE LET pair == merges[k][1]
             token == merges[k][2]
         IN  IF ~vocab_has(vocab, pair[1]) \/ ~vocab_has(vocab, pair[2])
             THEN [ok |-> FALSE, vocab |-> vocab]
             ELSE fold_vocab((token :> (vocab_at(vocab, pair[1]) \o vocab_at(vocab, pair[2])))
                                 @@ vocab, merges, k + 1)

\* The fold with the two expansions of a pair concatenated in the wrong order.
RECURSIVE fold_vocab_swapped(_, _, _)
fold_vocab_swapped(vocab, merges, k) ==
    IF k > Len(merges) THEN [ok |-> TRUE, vocab |-> vocab]
    ELSE LET pair == merges[k][1]
             token == merges[k][2]
         IN  IF ~vocab_has(vocab, pair[1]) \/ ~vocab_has(vocab, pair[2])
             THEN [ok |-> FALSE, vocab |-> vocab]
             ELSE fold_vocab_swapped(
                      (token :> (vocab_at(vocab, pair[2]) \o vocab_at(vocab, pair[1])))
                          @@ vocab, merges, k + 1)

build_vocab_swapped(merges) == fold_vocab_swapped(<<>>, merges, 1)

build_vocab(merges) == fold_vocab(<<>>, merges, 1)

\* --------------------------------------------------------------- Tokenizer

\* Tokenizer.__init__
Tokenizer(vocab_size) ==
    [ built      |-> FALSE,
      vocab_size |-> IF vocab_size = 0 THEN VOCAB_SIZE ELSE vocab_size,
      counts     |-> <<>>,
      merges     |-> <<>>,
      corpus     |-> <<>>,
      vocab      |-> <<>> ]

\* The body of Tokenizer.encode on a built tokenizer: the merges applied to
\* the UTF-8 bytes of the text, from merge k on.
RECURSIVE apply_merges(_, _, _)
apply_merges(tokens, merges, k) ==
    IF k > Len(merges) THEN tokens
    ELSE apply_merges(replace_pair_with_token(tokens, merges[k][1], merges[k][2]),
                      merges, k + 1)

encode_tokens(t, text) == apply_merges(utf8_encode(text), t.merges, 1)

\* The body of Tokenizer.decode on a built tokenizer: vocab.get(token, [])
\* of every token, concatenated, then decoded as UTF-8.
decode_bytes(t, tokens) ==
    Concat([k \in 1..Len(tokens) |->
               IF vocab_has(t.vocab, tokens[k]) THEN vocab_at(t.vocab, tokens[k]) ELSE <<>>])

decode_text(t, tokens) == utf8_decode(decode_bytes(t, tokens))

\* The loop test without the break on a best count of 1.
build_continues_any_pair(t, new_token) ==
    /\ new_token < t.vocab_size
    /\ t.counts # <<>>

\* The loop test of Tokenizer.build: the while condition and the two breaks.
build_continues(t, new_token) ==
    /\ new_token < t.vocab_size
    /\ t.counts # <<>>
    /\ t.counts[IndexOfPair(t.counts, max_pair(t.counts))].n > 1

\* One iteration of the loop of Tokenizer.build.
build_step(t, new_token) ==
    LET pair == max_pair(t.counts)
        new_corpus == [w \in 1..Len(t.corpus) |->
                          replace_pair_with_token(t.corpus[w], pair, new_token)]
    IN  [t EXCEPT !.merges = Append(@, <<pair, new_token>>),
                  !.corpus = new_corpus,
                  !.counts = count_corpus(<<>>, new_corpus, 1)]

\* ------------------------------------------------------------- persistence

\* struct.pack("<I", x): four bytes, least significant first.
pack_u32(x) ==
    <<x % 256, (x \div 256) % 256, (x \div 65536) % 256, (x \div 16777216) % 256>>

\* The unpacking that reads the least significant byte alone.
unpack_low_byte(b) == b[1]

\* struct.unpack("<I", b)[0]
unpack_u32(b) == b[1] + 256 * b[2] + 65536 * b[3] + 16777216 * b[4]

\* The merge entries written with the token before its pair.
RECURSIVE pack_entries_token_first(_, _)
pack_entries_token_first(merges, k) ==
    IF k > Len(merges) THEN <<>>
    ELSE pack_u32(merges[k][2]) \o pack_u32(merges[k][1][1]) \o pack_u32(merges[k][1][2])
             \o pack_entries_token_first(merges, k + 1)

\* The merge entries save_tokenizer writes: pair[0], pair[1], token.
RECURSIVE pack_entries(_, _)
pack_entries(merges, k) ==
    IF k > Len(merges) THEN <<>>
    ELSE pack_u32(merges[k][1][1]) \o pack_u32(merges[k][1][2]) \o pack_u32(merges[k][2])
             \o pack_entries(merges, k + 1)

\* The bytes save_tokenizer writes for a built tokenizer.
save_bytes(t) ==
    pack_u32(FileVersion) \o pack_u32(Len(t.merges)) \o pack_entries(t.merges, 1)

\* The read loop of load_tokenizer: left entries still to read, pos the bytes
\* of the file read so far; f.read(n) returns fewer than n bytes at the end.
RECURSIVE read_entries(_, _, _, _)
read_entries(data, pos, left, merges) ==
    IF left = 0 THEN [err |-> "", merges |-> merges]
    ELSE IF Len(data) - pos < 8
         THEN [err |-> "Invalid file format: incomplete pair data", merges |-> merges]
    ELSE IF Len(data) - pos - 8 < 4
         THEN [err |-> "Invalid file format: incomplete token data", merges |-> merges]
    ELSE LET pair0 == unpack_u32(SubSeq(data, pos + 1, pos + 4))
             pair1 == unpack_u32(SubSeq(data, pos + 5, pos + 8))
             token == unpack_u32(SubSeq(data, pos + 9, pos + 12))
         IN  read_entries(data, pos + 12, left - 1,
                          Append(merges, <<<<pair0, pair1>>, token>>))

Raised(exc, msg) == [exc |-> exc, msg |-> msg, tokenizer |-> Tokenizer(0)]

\* load_tokenizer(path): the exception raised ("none" when it returns) and the
\* tokenizer returned.
load_tokenizer(file) ==
    IF ~file.exists THEN Raised("FileNotFoundError", "")
    ELSE IF Len(file.data) < 4
         THEN Raised("ValueError", "Invalid file format: missing version")
    ELSE IF unpack_u32(SubSeq(file.data, 1, 4)) # FileVersion
         THEN Raised("ValueError", "Unsupported file version")
    ELSE IF Len(file.data) < 8
         THEN Raised("ValueError", "Invalid file format: missing entry count")
    ELSE LET count == unpack_u32(SubSeq(file.data, 5, 8))
             rd == read_entries(file.data, 8, count, <<>>)
             bv == build_vocab(rd.merges)
         IN  IF rd.err # "" THEN Raised("ValueError", rd.err)
             ELSE IF ~bv.ok THEN Raised("KeyError", "")
             ELSE [ exc |-> "none", msg |-> "",
                    tokenizer |-> [Tokenizer(0) EXCEPT !.built = TRUE,
                                                       !.merges = rd.merges,
                                                       !.vocab = bv.vocab] ]

\* ------------------------------------------------------------------ state

VARIABLES
    toks,       \* the tokenizers that exist: toks[1] is the one the caller
                \* constructed, toks[2] the one load_tokenizer returned last
    file,       \* the file at the path save_tokenizer and load_tokenizer use
    pc,         \* "idle", or "build" while Tokenizer.build runs its loop
    building,   \* inside build: the tokenizer being built and its new_token
    n_adds,     \* the number of add calls that extended a corpus
    res         \* the outcome of the last call: the operation, the tokenizer,
                \* the exception raised ("none" when it returned), its message,
                \* and for encode and decode the argument and the value returned

vars == <<toks, file, pc, building, n_adds, res>>

TokIds == DOMAIN toks

NoFile == [exists |-> FALSE, data |-> <<>>]

Result(op, id, exc, msg, arg, val) ==
    [op |-> op, id |-> id, exc |-> exc, msg |-> msg, arg |-> arg, val |-> val]

NotBuilding == [id |-> 0, new_token |-> 0]

CorpusBytes(corpus) == Len(Concat(corpus))

Init ==
    /\ \E vocab_size \in VocabSizeArgs : toks = <<Tokenizer(vocab_size)>>
    /\ file = NoFile
    /\ pc = "idle"
    /\ building = NotBuilding
    /\ n_adds = 0
    /\ res = Result("init", 1, "none", "", <<>>, <<>>)

\* ---------------------------------------------------------------- actions

\* add without its check of the built flag.
add_unchecked(id, text) ==
    /\ pc = "idle"
    /\ n_adds' = n_adds
    /\ res' = Result("add", id, "none", "", <<>>, <<>>)
    /\ toks' = [toks EXCEPT ![id].corpus = @ \o str_to_ints(text)]
    /\ UNCHANGED <<file, pc, building>>

\* Tokenizer.add(text)
add(id, text) ==
    /\ pc = "idle"
    /\ IF toks[id].built
       THEN /\ res' = Result("add", id, "ValueError", "Vocabulary already built", <<>>, <<>>)
            /\ UNCHANGED <<toks, n_adds>>
       ELSE /\ n_adds < MaxAdds
            /\ CorpusBytes(toks[id].corpus) + Len(utf8_encode(text)) <= MaxCorpusBytes
            /\ n_adds' = n_adds + 1
            /\ res' = Result("add", id, "none", "", <<>>, <<>>)
            /\ toks' = [toks EXCEPT ![id].corpus = @ \o str_to_ints(text)]
    /\ UNCHANGED <<file, pc, building>>

\* Tokenizer.build(), up to the first test of its loop: the built check, the
\* flag and the initial pair counts.
build_begin(id) ==
    /\ pc = "idle"
    /\ IF toks[id].built
       THEN /\ res' = Result("build", id, "ValueError", "Vocabulary already built", <<>>, <<>>)
            /\ UNCHANGED <<toks, pc, building>>
       ELSE /\ toks' = [toks EXCEPT ![id].built = TRUE,
                                    ![id].counts = count_corpus(@, toks[id].corpus, 1)]
            /\ pc' = "build"
            /\ building' = [id |-> id, new_token |-> FirstNewToken]
            /\ res' = Result("build", id, "running", "", <<>>, <<>>)
    /\ UNCHANGED <<file, n_adds>>

\* The iteration without new_token += 1.
build_iter_same_token ==
    /\ pc = "build"
    /\ build_continues(toks[building.id], building.new_token)
    /\ toks' = [toks EXCEPT ![building.id] = build_step(@, building.new_token)]
    /\ UNCHANGED <<file, pc, building, n_adds, res>>

\* One iteration of the loop of Tokenizer.build.
build_iter ==
    /\ pc = "build"
    /\ build_continues(toks[building.id], building.new_token)
    /\ toks' = [toks EXCEPT ![building.id] = build_step(@, building.new_token)]
    /\ building' = [building EXCEPT !.new_token = @ + 1]
    /\ UNCHANGED <<file, pc, n_adds, res>>

\* The end of Tokenizer.build: the loop is left and the vocabulary is built.
build_end ==
    /\ pc = "build"
    /\ ~build_continues(toks[building.id], building.new_token)
    /\ toks' = [toks EXCEPT ![building.id].vocab = build_vocab(toks[building.id].merges).vocab]
    /\ pc' = "idle"
    /\ building' = NotBuilding
    /\ res' = Result("build", building.id, "none", "", <<>>, <<>>)
    /\ UNCHANGED <<file, n_adds>>

\* Tokenizer.encode(text)
encode(id, text) ==
    /\ pc = "idle"
    /\ res' = IF ~toks[id].built
              THEN Result("encode", id, "ValueError",
                          "Vocabulary not built yet. Call build() first.", <<>>, <<>>)
              ELSE Result("encode", id, "none", "", text, encode_tokens(toks[id], text))
    /\ UNCHANGED <<toks, file, pc, building, n_adds>>

\* Tokenizer.decode(tokens)
decode(id, tokens) ==
    /\ pc = "idle"
    /\ res' = IF ~toks[id].built
              THEN Result("decode", id, "ValueError",
                          "Vocabulary not built yet. Call build() first.", <<>>, <<>>)
              ELSE Result("decode", id, "none", "", tokens, decode_text(toks[id], tokens))
    /\ UNCHANGED <<toks, file, pc, building, n_adds>>

\* save_tokenizer(tokenizer, path)
save_tokenizer(id) ==
    /\ pc = "idle"
    /\ IF ~toks[id].built
       THEN /\ res' = Result("save", id, "ValueError",
                             "Tokenizer must be built before saving", <<>>, <<>>)
            /\ file' = file
       ELSE /\ res' = Result("save", id, "none", "", <<>>, <<>>)
            /\ file' = [exists |-> TRUE, data |-> save_bytes(toks[id])]
    /\ UNCHANGED <<toks, pc, building, n_adds>>

\* load_tokenizer(path): the tokenizer returned becomes toks[2].
load ==
    /\ pc = "idle"
    /\ LET r == load_tokenizer(file)
       IN  /\ res' = Result("load", 2, r.exc, r.msg, <<>>, <<>>)
           /\ toks' = IF r.exc = "none" THEN <<toks[1], r.tokenizer>> ELSE toks
    /\ UNCHANGED <<file, pc, building, n_adds>>

\* The texts add is called with: add raises on a built tokenizer before it
\* reads its argument, so one text stands for all of them there.
AddInputs(id) == IF toks[id].built THEN {<<>>} ELSE TrainTexts

Next ==
    \/ \E id \in TokIds : \E text \in AddInputs(id) : add(id, text)
    \/ \E id \in TokIds : build_begin(id)
    \/ build_iter
    \/ build_end
    \/ \E id \in TokIds, text \in EncodeInputs : encode(id, text)
    \/ \E id \in TokIds, tokens \in DecodeInputs : decode(id, tokens)
    \/ \E id \in TokIds : save_tokenizer(id)
    \/ load

Spec == Init /\ [][Next]_vars

\* ------------------------------------------------------------ properties

\* The last call returned (raised nothing).
Returned(op) == res.op = op /\ res.exc = "none"

Range(s) == {s[k] : k \in 1..Len(s)}

\* C1 (round trip): when build() returns, for every well-formed text s the
\* vocabulary expansions of the tokens of encode(s) concatenate to the UTF-8
\* bytes of s and decode(encode(s)) is s; and the token list an encode call
\* on that tokenizer returned decodes to the text it was called with.
C1_RoundTrip ==
    /\ Returned("build") =>
           \A s \in QueryTexts :
               /\ decode_bytes(toks[res.id], encode_tokens(toks[res.id], s)) = utf8_encode(s)
               /\ decode_text(toks[res.id], encode_tokens(toks[res.id], s)) = s
    /\ (Returned("encode") /\ res.id = 1) => decode_text(toks[1], res.val) = res.arg

\* An encode call on a tokenizer built by build() returned fewer tokens than
\* the text has bytes, for a text with a two-byte code point.
C1_Witness ==
    /\ Returned("encode") /\ res.id = 1
    /\ 233 \in Range(res.arg)
    /\ Len(toks[1].merges) >= 2
    /\ Len(res.val) < Len(utf8_encode(res.arg))

\* The rewrite pass as the specification words it: where the pair stands at
\* the head of what is left, the new symbol is emitted and two symbols are
\* passed; otherwise the head is emitted and one symbol is passed.
RECURSIVE SpecPass(_, _, _)
SpecPass(s, pair, new_symbol) ==
    IF Len(s) < 2 THEN s
    ELSE IF <<s[1], s[2]>> = pair
         THEN <<new_symbol>> \o SpecPass(Drop(s, 2), pair, new_symbol)
         ELSE <<s[1]>> \o SpecPass(Tail(s), pair, new_symbol)

\* Every merge applied once, in ascending rank order, ranks k and above.
RECURSIVE SpecEncode(_, _, _)
SpecEncode(s, merges, k) ==
    IF k > Len(merges) THEN s
    ELSE SpecEncode(SpecPass(s, merges[k][1], merges[k][2]), merges, k + 1)

\* C10 (merge application): when build() or load_tokenizer returns, encode of
\* every text is the flat UTF-8 byte sequence of the whole text with every
\* merge applied once in rank order as one left-to-right non-overlapping pass;
\* an encode call returned exactly that; and under the single merge (x, x) the
\* run x x x encodes to [new, x].
C10_MergeApplication ==
    /\ (Returned("build") \/ Returned("load")) =>
           \A s \in QueryTexts :
               encode_tokens(toks[res.id], s)
                   = SpecEncode(utf8_encode(s), toks[res.id].merges, 1)
    /\ Returned("encode") =>
           res.val = SpecEncode(utf8_encode(res.arg), toks[res.id].merges, 1)
    /\ Returned("build") =>
           \A x \in {32, 97} :
               toks[res.id].merges = << <<<<x, x>>, FirstNewToken>> >>
                   => encode_tokens(toks[res.id], <<x, x, x>>) = <<FirstNewToken, x>>

\* encode("aaa") returned [256, 97] on a tokenizer whose only merge is (97, 97).
C10_Witness ==
    /\ Returned("encode")
    /\ res.arg = <<97, 97, 97>>
    /\ res.val = <<FirstNewToken, 97>>
    /\ toks[res.id].merges = << <<<<97, 97>>, FirstNewToken>> >>

\* The calls that are illegal in the lifecycle state of the tokenizer they are
\* made on, as a step: the call the step makes is the one its result names.
IllegalCall ==
    /\ pc = "idle"
    /\ res'.op \in {"add", "build", "encode", "decode", "save"}
    /\ IF res'.op \in {"add", "build"} THEN toks[res'.id].built ELSE ~toks[res'.id].built

IllegalMessage(op) ==
    CASE op \in {"add", "build"} -> "Vocabulary already built"
      [] op \in {"encode", "decode"} -> "Vocabulary not built yet. Call build() first."
      [] op = "save" -> "Tokenizer must be built before saving"

C2_Step ==
    /\ IllegalCall =>
           /\ res'.exc = "ValueError"
           /\ res'.msg = IllegalMessage(res'.op)
           /\ toks' = toks
           /\ file' = file
           /\ pc' = "idle"
    /\ \A id \in DOMAIN toks :
           toks[id].built => (id \in DOMAIN toks' /\ toks'[id].built)
    /\ (pc = "idle" /\ pc' = "build") => ~toks[building'.id].built

\* C2 (lifecycle legality): add or build on a built tokenizer (built by
\* build() or returned by load_tokenizer), and encode, decode or
\* save_tokenizer on a tokenizer not yet built, raise ValueError and leave the
\* built flag, corpus, merge list, vocabulary and the file unchanged; build
\* starts only on a tokenizer that is not built, and a built tokenizer stays
\* built.
C2_LifecycleLegality == [][C2_Step]_vars

\* build was called on the tokenizer load_tokenizer returned, and raised.
C2_Witness ==
    /\ res.op = "build" /\ res.exc = "ValueError" /\ res.id = 2
    /\ toks[2].built /\ toks[2].merges # <<>>
    /\ n_adds = MaxAdds

\* C3 (persistence round trip): load_tokenizer applied to the file written by
\* save_tokenizer returns; the tokenizer it returns is built, its merge list
\* is the saved tokenizer's, entry for entry in rank order, and its encode and
\* decode give the saved tokenizer's results on every input.  The file always
\* holds what save_tokenizer writes for the tokenizer built by build().
C3_PersistenceRoundTrip ==
    /\ file.exists => file.data = save_bytes(toks[1])
    /\ (res.op = "load" /\ file.exists) =>
           /\ res.exc = "none"
           /\ toks[2].built
           /\ toks[2].merges = toks[1].merges
           /\ \A s \in QueryTexts : encode_tokens(toks[2], s) = encode_tokens(toks[1], s)
           /\ \A d \in DecodeLists : decode_text(toks[2], d) = decode_text(toks[1], d)
           /\ \A d \in DecodeLists : decode_bytes(toks[2], d) = decode_bytes(toks[1], d)

\* load_tokenizer returned a tokenizer with two merges whose pairs differ in
\* their two symbols.
C3_Witness ==
    /\ Returned("load")
    /\ Len(toks[2].merges) >= 2
    /\ toks[2].merges[1][1][1] # toks[2].merges[1][1][2]

\* ------------------------------------------------- files from elsewhere

\* The values the fields of a merge record of such a file take: a base symbol
\* and the first learned symbol id.
RecordValues == {97, 256}

FileRecords == {<<<<l, r>>, n>> : l \in RecordValues, r \in RecordValues, n \in RecordValues}

RecordLists == UNION {[1..k -> FileRecords] : k \in 0..MaxRecords}

\* The versions such a file declares: 1, and two values that are not 1, one of
\* them with 1 as its least significant byte.
FileVersions == {1, 2, 257}

\* A file that declares version v and count n and holds the records recs.
FileBytes(v, n, recs) == pack_u32(v) \o pack_u32(n) \o pack_entries(recs, 1)

\* A file of a version, a count and a list of records, or such a file cut
\* short.
IsFile(f) ==
    \E v \in FileVersions, n \in 0..(MaxRecords + 1), recs \in RecordLists :
        \E k \in 0..(8 + 12 * Len(recs)) :
            f = [exists |-> TRUE, data |-> Take(FileBytes(v, n, recs), k)]

InitFile ==
    /\ toks = <<Tokenizer(0)>>
    /\ (file = NoFile \/ IsFile(file))
    /\ pc = "idle"
    /\ building = NotBuilding
    /\ n_adds = 0
    /\ res = Result("init", 1, "none", "", <<>>, <<>>)

NextFile == load

\* load_tokenizer on a file that save_tokenizer need not have written.
SpecFile == InitFile /\ [][NextFile]_vars

\* The header fields of the file as four-byte little-endian integers.
LittleEndian(b, pos) ==
    b[pos + 1] + 256 * (b[pos + 2] + 256 * (b[pos + 3] + 256 * b[pos + 4]))

HasVersion == file.exists /\ Len(file.data) >= 4

DeclaredVersion == LittleEndian(file.data, 0)

HasCount == HasVersion /\ Len(file.data) >= 8

DeclaredCount == LittleEndian(file.data, 4)

TruncationMessages ==
    { "Invalid file format: missing entry count",
      "Invalid file format: incomplete pair data",
      "Invalid file format: incomplete token data" }

\* C4 (bad file handling): load_tokenizer on a file whose first four bytes
\* decode to a version other than 1 raises the unsupported-version error,
\* whatever follows; on a version-1 file that ends before the count or before
\* the declared number of complete 12-byte records it raises one of the
\* truncation errors; on a missing path it raises FileNotFoundError; the three
\* are told apart by exception and message, and no tokenizer is returned.
C4_BadFileHandling ==
    res.op = "load" =>
        /\ (HasVersion /\ DeclaredVersion # 1) =>
               /\ res.exc = "ValueError" /\ res.msg = "Unsupported file version"
               /\ DOMAIN toks = {1}
        /\ (HasVersion /\ DeclaredVersion = 1
              /\ (~HasCount \/ Len(file.data) < 8 + 12 * DeclaredCount)) =>
               /\ res.exc = "ValueError" /\ res.msg \in TruncationMessages
               /\ DOMAIN toks = {1}
        /\ ~file.exists =>
               /\ res.exc = "FileNotFoundError"
               /\ DOMAIN toks = {1}
        /\ "Unsupported file version" \notin TruncationMessages

\* load_tokenizer raised the truncation error of a record cut after its pair,
\* on a version-1 file that holds one complete record before it.
C4_Witness ==
    /\ res.op = "load"
    /\ res.msg = "Invalid file format: incomplete token data"
    /\ Len(file.data) >= 8 + 12 + 8

\* The records of a well-formed file, in read order.
RecordAt(k) ==
    << <<LittleEndian(file.data, 8 + 12 * (k - 1)), LittleEndian(file.data, 12 + 12 * (k - 1))>>,
       LittleEndian(file.data, 16 + 12 * (k - 1)) >>

WellFormedFile == HasCount /\ DeclaredVersion = 1 /\ Len(file.data) >= 8 + 12 * DeclaredCount

\* C5 (load of a well-formed file): for every file that starts with version 1
\* and a count N followed by at least N complete 12-byte records, whatever the
\* record values are, load_tokenizer returns a built tokenizer whose merge list
\* is the N records in read order and whose vocabulary holds an expansion for
\* every new_symbol; load fails only with not-found, unsupported version or
\* truncation.
C5_LoadWellFormed ==
    res.op = "load" =>
        /\ WellFormedFile =>
               /\ res.exc = "none"
               /\ 2 \in DOMAIN toks
               /\ toks[2].built
               /\ toks[2].merges = [k \in 1..DeclaredCount |-> RecordAt(k)]
               /\ \A k \in 1..DeclaredCount : vocab_has(toks[2].vocab, RecordAt(k)[2])
        /\ res.exc # "none" =>
               \/ res.exc = "FileNotFoundError"
               \/ res.exc = "ValueError" /\ res.msg = "Unsupported file version"
               \/ res.exc = "ValueError" /\ res.msg \in TruncationMessages
               \/ res.exc = "ValueError" /\ res.msg = "Invalid file format: missing version"

\* ------------------------------------------------- properties of build()

\* The positions <<w, i>> at which symbol i of word w has a right neighbour
\* inside word w.
Positions(corpus) ==
    UNION { {<<w, i>> : i \in 1..(Len(corpus[w]) - 1)} : w \in 1..Len(corpus) }

PairAt(corpus, p) == <<corpus[p[1]][p[2]], corpus[p[1]][p[2] + 1]>>

PairsOf(corpus) == {PairAt(corpus, p) : p \in Positions(corpus)}

\* Where the pair occurs in the corpus, and how often.
Occurrences(corpus, pair) == {p \in Positions(corpus) : PairAt(corpus, p) = pair}

Count(corpus, pair) == Cardinality(Occurrences(corpus, pair))

NoRepeatedPair(corpus) == \A pair \in PairsOf(corpus) : Count(corpus, pair) <= 1

\* Position p comes before position q when the corpus is scanned word by
\* word, left to right.
Before(p, q) == p[1] < q[1] \/ (p[1] = q[1] /\ p[2] < q[2])

FirstOccurrence(corpus, pair) ==
    CHOOSE p \in Occurrences(corpus, pair) :
        \A q \in Occurrences(corpus, pair) : q = p \/ Before(p, q)

\* The number of symbols of the corpus.
Symbols(corpus) == Len(Concat(corpus))

\* A word with every new_symbol of the merge replaced by the pair it stands for.
Unmerged(word, merge) ==
    Concat([k \in 1..Len(word) |-> IF word[k] = merge[2] THEN merge[1] ELSE <<word[k]>>])

Last(s) == s[Len(s)]

\* A step that is one iteration of the loop of build().
Iteration == pc = "build" /\ pc' = "build"

\* The tokenizer build() is running on, before and after the step.
Built == toks[building.id]

BuiltNext == toks'[building.id]

\* The original statement of C6: when build() returns, the number of merges
\* is vocab_size - 256 or no adjacent pair occurs more than once.
C6_Original ==
    Returned("build") =>
        \/ Len(toks[res.id].merges) = toks[res.id].vocab_size - FirstNewToken
        \/ NoRepeatedPair(toks[res.id].corpus)

C6_State ==
    /\ Returned("build") =>
           \/ /\ FirstNewToken + Len(toks[res.id].merges) >= toks[res.id].vocab_size
              /\ toks[res.id].vocab_size >= FirstNewToken =>
                     Len(toks[res.id].merges) = toks[res.id].vocab_size - FirstNewToken
           \/ NoRepeatedPair(toks[res.id].corpus)
    /\ (Returned("build") /\ toks[res.id].merges = <<>>) =>
           \A s \in QueryTexts : encode_tokens(toks[res.id], s) = utf8_encode(s)
    /\ pc = "build" => ENABLED (build_iter \/ build_end)

C6_Step ==
    Iteration =>
        /\ ~NoRepeatedPair(Built.corpus)
        /\ Symbols(BuiltNext.corpus) < Symbols(Built.corpus)
        /\ building'.new_token = building.new_token + 1
        /\ building.new_token < Built.vocab_size

\* C6 as amended (training stop condition): build() terminates -- a running
\* build can always take its next step, and every iteration shortens the
\* corpus and uses up one symbol id below vocab_size -- and when it returns
\* either the target is reached (256 + the number of merges is at least
\* vocab_size, and the number of merges is vocab_size - 256 when vocab_size is
\* at least 256) or no adjacent pair occurs more than once in the rewritten
\* corpus; an iteration runs only on a corpus with a repeated pair, so a corpus
\* without one yields zero merges, and with zero merges encode(text) is the
\* list of the UTF-8 bytes of text.
C6_StopCondition == [](C6_State) /\ [][C6_Step]_vars

\* build() returned with the target reached while a pair still repeats.
C6_Witness ==
    /\ Returned("build")
    /\ Len(toks[res.id].merges) = toks[res.id].vocab_size - FirstNewToken
    /\ toks[res.id].merges # <<>>
    /\ ~NoRepeatedPair(toks[res.id].corpus)

C7_Step ==
    Iteration =>
        LET pair == Last(BuiltNext.merges)[1]
            corpus == Built.corpus
        IN  /\ Len(BuiltNext.merges) = Len(Built.merges) + 1
            /\ pair \in PairsOf(corpus)
            /\ Count(corpus, pair) >= 2
            /\ \A other \in PairsOf(corpus) : Count(corpus, other) <= Count(corpus, pair)
            /\ \A other \in PairsOf(corpus) \ {pair} :
                   Count(corpus, other) = Count(corpus, pair) =>
                       Before(FirstOccurrence(corpus, pair), FirstOccurrence(corpus, other))

\* C7 (merge selection): the pair an iteration of build's loop merges occurs,
\* in the corpus as the earlier merges rewrote it, at least twice and at least
\* as often as every other pair, and among the pairs that occur as often it is
\* the one whose first occurrence comes first when the corpus is scanned word
\* by word, left to right.
C7_MergeSelection == [][C7_Step]_vars

\* An iteration has merged a pair that another pair of the corpus, with a
\* later first occurrence, occurred as often as.
C7_Witness ==
    /\ pc = "build" /\ Built.merges # <<>>
    /\ LET merge == Last(Built.merges)
           prev == [w \in 1..Len(Built.corpus) |-> Unmerged(Built.corpus[w], merge)]
       IN  \E other \in PairsOf(prev) \ {merge[1]} :
               Count(prev, other) = Count(prev, merge[1])

\* C8 (symbol allocation): at every point, the merge the tokenizer built by
\* build() holds at rank i carries the symbol id 256 + i, which is less than
\* vocab_size; both symbols of its pair are less than 256 + i; and no pair is
\* recorded at two ranks.
C8_SymbolAllocation ==
    LET merges == toks[1].merges
    IN  /\ \A k \in 1..Len(merges) :
               /\ merges[k][2] = FirstNewToken + (k - 1)
               /\ merges[k][2] < toks[1].vocab_size
               /\ merges[k][1][1] < FirstNewToken + (k - 1)
               /\ merges[k][1][2] < FirstNewToken + (k - 1)
        /\ \A j, k \in 1..Len(merges) : j # k => merges[j][1] # merges[k][1]

\* build() is in its loop with two merges recorded, the second one of a pair
\* that holds the first new symbol.
C8_Witness ==
    /\ pc = "build"
    /\ Len(toks[1].merges) >= 2
    /\ FirstNewToken \in Range(toks[1].merges[2][1])

C9_State ==
    toks[1].built =>
        LET counts == toks[1].counts
            corpus == toks[1].corpus
        IN  /\ {counts[k].pair : k \in 1..Len(counts)} = PairsOf(corpus)
            /\ \A k \in 1..Len(counts) : counts[k].n = Count(corpus, counts[k].pair)
            /\ \A j, k \in 1..Len(counts) : j # k => counts[j].pair # counts[k].pair

C9_Step ==
    Iteration =>
        /\ Len(BuiltNext.corpus) = Len(Built.corpus)
        /\ \A w \in 1..Len(Built.corpus) :
               Unmerged(BuiltNext.corpus[w], Last(BuiltNext.merges)) = Built.corpus[w]

\* C9 (pair-count boundary): at every test of build's loop, and after it, the
\* pair-count table holds exactly the pairs of symbols adjacent inside one
\* word of the current corpus, each with the number of its occurrences inside
\* words; a pair made of the last symbol of a word and the first of the next
\* is not counted, and words of length 0 or 1 contribute nothing.  An
\* iteration keeps the number of words and rewrites every word within itself.
C9_PairCountBoundary == [](C9_State) /\ [][C9_Step]_vars

\* After an iteration, two neighbouring words end and start with symbols that
\* the table holds no pair of.
C9_Witness ==
    /\ pc = "build" /\ toks[1].merges # <<>>
    /\ \E w \in 1..(Len(toks[1].corpus) - 1) :
           /\ toks[1].corpus[w] # <<>> /\ toks[1].corpus[w + 1] # <<>>
           /\ IndexOfPair(toks[1].counts,
                          <<Last(toks[1].corpus[w]), toks[1].corpus[w + 1][1]>>) = 0
    /\ toks[1].counts # <<>>

====
